---- MODULE Spec2Model ----
(***************************************************************************)
(* A model of tools/ort_rewriter_profiling/profile_analysis.py: the        *)
(* per-operator accumulators (ProfileEntry), the aggregate (ModelProfile)  *)
(* with its warmup trimming and filtering, the diff table (tabulate_diff), *)
(* the two-table comparison (compare_node_reports) and the Node-trace      *)
(* report (analyze_profile).                                               *)
(*                                                                         *)
(* Python floats are modelled as exact rationals [num, den] in lowest      *)
(* terms; ProfileEntry objects live in a heap (entries) because            *)
(* ModelProfile objects share them by reference.                           *)
(***************************************************************************)
EXTENDS Integers, Sequences, FiniteSets, TLC

VARIABLES
    entries,    \* heap: accumulator id -> ProfileEntry.entries, a sequence of <<node_name, duration>>
    parsed,     \* the heap as the parser left it (never written afterwards)
    profiles,   \* the ModelProfile objects, in order of creation
    stdout,     \* what has been printed: tables, or report lines
    calls,      \* the calls made so far, with their arguments, in order
    events,     \* analyze_profile: the decoded Node-trace (profile_json)
    report,     \* analyze_profile: the local dict op_type -> entries, keys in insertion order
    pc          \* position of the running script

vars == <<entries, parsed, profiles, stdout, calls, events, report, pc>>

----------------------------------------------------------------------------
(* Bounds of the model. *)

MaxLen == 3         \* samples per accumulator in the aggregate specification
MaxIter == 2        \* largest iteration count passed to a constructor
MaxProfiles == 2    \* ModelProfile objects created in the aggregate specification
MaxSamples == 3     \* samples over the two runs of the diff specification
MaxEvents == 2      \* events of a Node-trace

Durs == {1, 2}                          \* sample durations (ns)
Labels == {"MatMul", "Add", "Batch-1"}  \* operator types of the runs
LabelOrder == <<"MatMul", "Add", "Batch-1">>   \* order of first appearance in a trace

WARM_UP_ROUNDS == 1

None == "<None>"    \* Python's None, where a str | None field holds it

----------------------------------------------------------------------------
(* Exact rational arithmetic, standing for Python's float arithmetic. *)

Abs(x) == IF x < 0 THEN -x ELSE x

RECURSIVE GCD(_, _)
GCD(a, b) == IF b = 0 THEN a ELSE GCD(b, a % b)

Rat(n, d) ==
    LET s == IF d < 0 THEN -1 ELSE 1
        g == GCD(Abs(n), Abs(d))
    IN  [num |-> (s * n) \div g, den |-> (s * d) \div g]

Zero == [num |-> 0, den |-> 1]

RatAdd(a, b) ==
    LET g == GCD(a.den, b.den)
        den == (a.den \div g) * b.den
    IN  Rat(a.num * (den \div a.den) + b.num * (den \div b.den), den)

RatNeg(a) == [num |-> -a.num, den |-> a.den]
RatSub(a, b) == RatAdd(a, RatNeg(b))
RatMul(a, b) ==
    LET g1 == GCD(Abs(a.num), b.den)
        g2 == GCD(Abs(b.num), a.den)
    IN  Rat((a.num \div g1) * (b.num \div g2), (a.den \div g2) * (b.den \div g1))
RatDiv(a, b) == RatMul(a, Rat(b.den, b.num))
RatLess(a, b) == RatSub(a, b).num < 0
RatLeq(a, b) == RatSub(a, b).num <= 0

RECURSIVE RatSum(_)
RatSum(s) == IF s = <<>> THEN Zero ELSE RatAdd(Head(s), RatSum(Tail(s)))

\* int(x): truncation towards zero
Trunc(a) == IF a.num >= 0 THEN a.num \div a.den ELSE -((-a.num) \div a.den)

----------------------------------------------------------------------------
(* Sequences. *)

Range(s) == {s[i] : i \in 1..Len(s)}

\* Python's seq[k:]
SliceFrom(s, k) == SubSeq(s, k + 1, Len(s))

RECURSIVE SelectSeqBy(_, _)
SelectSeqBy(s, keep) ==
    IF s = <<>> THEN <<>>
    ELSE IF Head(s) \in keep THEN <<Head(s)>> \o SelectSeqBy(Tail(s), keep)
    ELSE SelectSeqBy(Tail(s), keep)

\* InsertDesc without reverse=True: ascending by key
RECURSIVE InsertDescAscending(_, _)
InsertDescAscending(x, s) ==
    IF s = <<>> THEN <<x>>
    ELSE IF RatLess(x.key, Head(s).key) THEN <<x>> \o s
    ELSE <<Head(s)>> \o InsertDescAscending(x, Tail(s))

\* sorted(..., reverse=True) over items decorated with their key: descending
\* by key, items of equal key in their original order.
RECURSIVE InsertDesc(_, _)
InsertDesc(x, s) ==
    IF s = <<>> THEN <<x>>
    ELSE IF RatLess(Head(s).key, x.key) THEN <<x>> \o s
    ELSE <<Head(s)>> \o InsertDesc(x, Tail(s))

RECURSIVE SortedDescFrom(_, _)
SortedDescFrom(todo, done) ==
    IF todo = <<>> THEN done
    ELSE SortedDescFrom(Tail(todo), InsertDesc(Head(todo), done))

SortedDesc(s) == SortedDescFrom(s, <<>>)

\* str.startswith
StartsWith(s, prefix) ==
    Len(s) >= Len(prefix) /\ SubSeq(s, 1, Len(prefix)) = prefix

\* f"{x}" of a str | None value
Str(x) == IF x = None THEN "None" ELSE x

----------------------------------------------------------------------------
(* ProfileEntry *)

Acc(run, op_type) == [run |-> run, op_type |-> op_type]

RECURSIVE SumDur(_)
SumDur(e) == IF e = <<>> THEN 0 ELSE Head(e)[2] + SumDur(Tail(e))

ProfileEntry_total_count(e, iteration) == Rat(Len(e), iteration)

ProfileEntry_total_duration(e, iteration) ==
    RatDiv(RatDiv(RatDiv(Rat(SumDur(e), 1), Rat(iteration, 1)), Rat(1000, 1)), Rat(1000, 1))

----------------------------------------------------------------------------
(* ModelProfile *)

\* TrimWarmup dividing by the iteration count alone
TrimWarmupByIteration(e, iteration) ==
    SliceFrom(e, (Len(e) \div iteration) * WARM_UP_ROUNDS)

\* The slice of __post_init__: entries[len(entries) // (WARM_UP_ROUNDS + iteration) * WARM_UP_ROUNDS :]
TrimWarmup(e, iteration) ==
    SliceFrom(e, (Len(e) \div (WARM_UP_ROUNDS + iteration)) * WARM_UP_ROUNDS)

\* The heap after the trimming loop of __post_init__ over op_profiles.
RECURSIVE TrimAll(_, _, _)
TrimAll(h, ops, iteration) ==
    IF ops = <<>> THEN h
    ELSE TrimAll([h EXCEPT ![Head(ops)] = TrimWarmup(h[Head(ops)], iteration)],
                 Tail(ops), iteration)

\* {op_profile.op_type: op_profile for op_profile in sorted_op_profiles}
DictOfProfiles(sorted) ==
    [t \in {sorted[i].op_type : i \in 1..Len(sorted)} |->
        sorted[CHOOSE i \in 1..Len(sorted) :
                  /\ sorted[i].op_type = t
                  /\ \A j \in (i + 1)..Len(sorted) : sorted[j].op_type # t]]

SortedOpProfiles(h, ops) ==
    LET decorated == [i \in 1..Len(ops) |->
                        [key |-> ProfileEntry_total_duration(h[ops[i]], 1), val |-> ops[i]]]
        s == SortedDesc(decorated)
    IN  [i \in 1..Len(s) |-> s[i].val]

\* The heap after ModelProfile(op_profiles, iteration, ..., _with_warmup).
PostInitHeap(h, ops, iteration, with_warmup) ==
    IF with_warmup THEN TrimAll(h, ops, iteration) ELSE h

\* The object ModelProfile(op_profiles, iteration, model_name, compiler_name, _with_warmup),
\* h being the heap before the call.
ModelProfile(h, ops, iteration, model_name, compiler_name, with_warmup) ==
    [op_profiles |-> ops,
     iteration |-> iteration,
     model_name |-> model_name,
     compiler_name |-> compiler_name,
     _with_warmup |-> with_warmup,
     op_profiles_dict |->
        DictOfProfiles(SortedOpProfiles(PostInitHeap(h, ops, iteration, with_warmup), ops))]

\* FilterWithWarmup left at the constructor's default
FilterWithWarmupDefault == TRUE

\* The _with_warmup argument filter_op_profiles passes to the constructor.
FilterWithWarmup == FALSE

\* The arguments of the constructor call in filter_op_profiles.
FilterOps(p, op_types) ==
    SelectSeqBy(p.op_profiles, {a \in Range(p.op_profiles) : a.op_type \in op_types})

filter_op_profiles(h, p, op_types) ==
    ModelProfile(h, FilterOps(p, op_types), p.iteration, p.model_name, p.compiler_name,
                 FilterWithWarmup)

FilterHeap(h, p, op_types) ==
    PostInitHeap(h, FilterOps(p, op_types), p.iteration, FilterWithWarmup)

op_duration(h, p, op_type) ==
    IF op_type \in DOMAIN p.op_profiles_dict
    THEN ProfileEntry_total_duration(h[p.op_profiles_dict[op_type]], p.iteration)
    ELSE Zero

op_count(h, p, op_type) ==
    Trunc(IF op_type \in DOMAIN p.op_profiles_dict
        THEN ProfileEntry_total_count(h[p.op_profiles_dict[op_type]], p.iteration)
        ELSE Zero)

total_op_count(h, p) ==
    RatSum([i \in 1..Len(p.op_profiles) |->
              ProfileEntry_total_count(h[p.op_profiles[i]], p.iteration)])

\* TimedOps without the "Batch-" test
TimedOpsAll(p) == p.op_profiles

\* The accumulators total_duration sums over.
TimedOps(p) ==
    SelectSeqBy(p.op_profiles,
                {a \in Range(p.op_profiles) : ~StartsWith(a.op_type, "Batch-")})

total_duration(h, p) ==
    LET ops == TimedOps(p)
    IN  RatSum([i \in 1..Len(ops) |-> ProfileEntry_total_duration(h[ops[i]], p.iteration)])

----------------------------------------------------------------------------
(* The aggregate specification: one run's accumulators, and any sequence of *)
(* constructor and filter_op_profiles calls over them.                      *)

\* The accumulators a parser leaves for a run whose operator type t was
\* sampled with the durations f[t] (none: no accumulator), named by position.
HeapOf(run, f) ==
    [a \in {Acc(run, t) : t \in {u \in Labels : f[u] # <<>>}} |->
        [i \in 1..Len(f[a.op_type]) |-> <<i, f[a.op_type][i]>>]]

\* report.values(): the accumulators of a run in order of first appearance.
ReportValues(h, run) ==
    SelectSeqBy([i \in 1..Len(LabelOrder) |-> Acc(run, LabelOrder[i])], DOMAIN h)

\* Every sample of an operator type takes the same time in this specification.
NominalDur(t) == IF t = "MatMul" THEN 2 ELSE 1

InitAgg ==
    /\ \E lens \in [Labels -> 0..MaxLen] :
          entries = HeapOf("base", [t \in Labels |-> [i \in 1..lens[t] |-> NominalDur(t)]])
    /\ parsed = entries
    /\ profiles = <<>>
    /\ stdout = <<>>
    /\ calls = <<>>
    /\ events = <<>>
    /\ report = <<>>
    /\ pc = "aggregate"

\* A caller constructs ModelProfile(report.values(), iteration, "model", "ort", _with_warmup).
Construct(iteration, with_warmup) ==
    /\ pc = "aggregate"
    /\ Len(profiles) < MaxProfiles
    /\ LET ops == ReportValues(entries, "base")
       IN  /\ profiles' = Append(profiles,
                    ModelProfile(entries, ops, iteration, "model", "ort", with_warmup))
           /\ entries' = PostInitHeap(entries, ops, iteration, with_warmup)
    /\ calls' = Append(calls, [op |-> "ModelProfile", iteration |-> iteration,
                                with_warmup |-> with_warmup])
    /\ UNCHANGED <<parsed, stdout, events, report, pc>>

\* A caller calls profiles[i].filter_op_profiles(op_types).
Filter(i, op_types) ==
    /\ pc = "aggregate"
    /\ Len(profiles) < MaxProfiles
    /\ i \in 1..Len(profiles)
    /\ profiles' = Append(profiles, filter_op_profiles(entries, profiles[i], op_types))
    /\ entries' = FilterHeap(entries, profiles[i], op_types)
    /\ calls' = Append(calls, [op |-> "filter_op_profiles", self |-> i,
                                op_types |-> op_types])
    /\ UNCHANGED <<parsed, stdout, events, report, pc>>

NextAgg ==
    \/ \E iteration \in 1..MaxIter, with_warmup \in BOOLEAN : Construct(iteration, with_warmup)
    \/ \E i \in 1..MaxProfiles, op_types \in SUBSET Labels : Filter(i, op_types)

SpecAgg == InitAgg /\ [][NextAgg]_vars

----------------------------------------------------------------------------
(* tabulate_diff *)

_diff(base, comp) == RatSub(comp, base)

\* Python's truth value of a number
Truthy(x) == x.num # 0

\* f"{x:.2f}": the nearest multiple of 1/100, an exact half going to the even one
Format2f(x) ==
    LET n == x.num * 100
        q == n \div x.den
        r == n % x.den
    IN  IF 2 * r > x.den \/ (2 * r = x.den /\ q % 2 = 1) THEN q + 1 ELSE q

NA == [text |-> "N/A"]

\* _diff_percent testing the base alone
_diff_percent_base_only(base, comp) ==
    IF Truthy(base)
    THEN [text |-> "%.2f%", hundredths |->
            Format2f(RatMul(RatDiv(RatSub(comp, base), base), Rat(100, 1)))]
    ELSE NA

_diff_percent(base, comp) ==
    IF Truthy(base) /\ Truthy(comp)
    THEN [text |-> "%.2f%", hundredths |->
            Format2f(RatMul(RatDiv(RatSub(comp, base), base), Rat(100, 1)))]
    ELSE NA

\* A dict display {k1: v1, ...}: a key written twice keeps its last value.
DictOf(pairs) ==
    [k \in {pairs[i][1] : i \in 1..Len(pairs)} |->
        pairs[CHOOSE i \in 1..Len(pairs) :
                 /\ pairs[i][1] = k
                 /\ \A j \in (i + 1)..Len(pairs) : pairs[j][1] # k][2]]

CountHeader(compiler) == Str(compiler) \o " count"
PerfHeader(compiler) == Str(compiler) \o " perf (ms)"

_construct_tabulate_dict(base_compiler, comp_compiler, op_type, base_count, comp_count, base_perf, comp_perf) ==
    DictOf(<< <<"OpType", op_type>>,
              <<"Diff", _diff(base_perf, comp_perf)>>,
              <<"Diff%", _diff_percent(base_perf, comp_perf)>>,
              <<CountHeader(base_compiler), base_count>>,
              <<CountHeader(comp_compiler), comp_count>>,
              <<PerfHeader(base_compiler), base_perf>>,
              <<PerfHeader(comp_compiler), comp_perf>> >>)

\* The operator types tabulate_diff makes a row for.
DiffOpTypes(base_report, comp_report) ==
    {t \in DOMAIN base_report.op_profiles_dict \cup DOMAIN comp_report.op_profiles_dict :
        ~StartsWith(t, "Batch-")}

\* The orders in which Python may iterate over a set.
Orderings(S) == {s \in [1..Cardinality(S) -> S] : Range(s) = S}

\* sorted(rows, key=lambda x: x["Diff"], reverse=True)
SortRowsByDiff(rows) ==
    LET s == SortedDesc([i \in 1..Len(rows) |-> [key |-> rows[i]["Diff"], val |-> rows[i]]])
    IN  [i \in 1..Len(s) |-> s[i].val]

\* RankedWithTotal with the "Total" row appended before the sort
RankedWithTotalSorted(op_rows, total_row) == SortRowsByDiff(Append(op_rows, total_row))

\* The per-operator rows sorted, then the "Total" row appended.
RankedWithTotal(op_rows, total_row) == Append(SortRowsByDiff(op_rows), total_row)

\* compare_node_reports: the operator types counted by "Total MatMul like ops"
matmul_core_op_types == {"MatMul", "Gemm", "FusedMatMul"}
matmul_add_op_types == matmul_core_op_types \cup {"Add"}

RECURSIVE SumOver(_, _, _, _)
SumOver(S, h, p, acc) ==
    IF S = {} THEN acc
    ELSE LET t == CHOOSE u \in S : TRUE
         IN  SumOver(S \ {t}, h, p, acc + op_count(h, p, t))

\* The count lambda of the row "Total MatMul like ops"
MatMulLikeCount(h, p) == SumOver(matmul_core_op_types, h, p, 0)

\* The duration lambda of the row "Total MatMul like ops"
MatMulLikeDuration(h, p) == total_duration(h, p)

MatMulLikeRow == [name |-> "Total MatMul like ops", lambdas |-> "matmul_like"]

\* additional_row_lambdas is a list of rows of the one kind the source defines.
count_lambda(row, h, p) == MatMulLikeCount(h, p)
duration_lambda(row, h, p) == MatMulLikeDuration(h, p)

\* The rows tabulate_diff hands to tabulate.tabulate; order is the order in
\* which the set of operator types was iterated.
tabulate_diff(h, base_report, comp_report, additional_row_lambdas, order) ==
    LET bc == base_report.compiler_name
        cc == comp_report.compiler_name
        op_rows == [i \in 1..Len(order) |->
                      _construct_tabulate_dict(bc, cc, order[i],
                          op_count(h, base_report, order[i]),
                          op_count(h, comp_report, order[i]),
                          op_duration(h, base_report, order[i]),
                          op_duration(h, comp_report, order[i]))]
        total_row == _construct_tabulate_dict(bc, cc, "Total",
                          total_op_count(h, base_report),
                          total_op_count(h, comp_report),
                          total_duration(h, base_report),
                          total_duration(h, comp_report))
        extra_rows == [i \in 1..Len(additional_row_lambdas) |->
                      _construct_tabulate_dict(bc, cc, additional_row_lambdas[i].name,
                          count_lambda(additional_row_lambdas[i], h, base_report),
                          count_lambda(additional_row_lambdas[i], h, comp_report),
                          duration_lambda(additional_row_lambdas[i], h, base_report),
                          duration_lambda(additional_row_lambdas[i], h, comp_report))]
    IN  RankedWithTotal(op_rows, total_row) \o extra_rows

\* ModelProfile.sorted_op_report, one record per line
sorted_op_report(h, p) ==
    LET s == SortedOpProfiles(h, p.op_profiles)
    IN  [i \in 1..Len(s) |->
            [op_type |-> s[i].op_type,
             instances |-> ProfileEntry_total_count(h[s[i]], p.iteration),
             duration |-> ProfileEntry_total_duration(h[s[i]], p.iteration)]]

----------------------------------------------------------------------------
(* The diff specification: two runs are analysed by analyze_profile_nvtx,   *)
(* then compared by tabulate_diff or by compare_node_reports.               *)

\* What a run can record: for each operator type a number of samples, all
\* taking the same time.
RunInputs ==
    {g \in [Labels -> [n : 0..MaxSamples, dur : Durs]] :
        \A t \in Labels : g[t].n = 0 => g[t].dur = 1}

SamplesOf(g) == g["MatMul"].n + g["Add"].n + g["Batch-1"].n

DursOf(g) == [t \in Labels |-> [i \in 1..g[t].n |-> g[t].dur]]

CompilerNames == {None, "dynamo"}
ExtraLists == {<<>>, <<MatMulLikeRow>>}

InitDiff ==
    /\ \E gb \in RunInputs, gc \in RunInputs :
          /\ SamplesOf(gb) + SamplesOf(gc) <= MaxSamples
          /\ LET hb == HeapOf("base", DursOf(gb))
                 hc == HeapOf("comp", DursOf(gc))
             IN  entries = [a \in DOMAIN hb \cup DOMAIN hc |->
                               IF a.run = "base" THEN hb[a] ELSE hc[a]]
    /\ parsed = entries
    /\ profiles = <<>>
    /\ stdout = <<>>
    /\ calls = <<>>
    /\ events = <<>>
    /\ report = <<>>
    /\ pc = "analyze_base"

\* analyze_profile_nvtx(path, iteration, model_name, compiler_name) on the trace of a run
AnalyzeNvtx(run, iteration, compiler_name) ==
    LET ops == ReportValues([a \in {b \in DOMAIN entries : b.run = run} |-> entries[a]], run)
        h == PostInitHeap(entries, ops, iteration, TRUE)
        model_profile == ModelProfile(entries, ops, iteration, None, compiler_name, TRUE)
    IN  /\ entries' = h
        /\ profiles' = Append(profiles, model_profile)
        /\ stdout' = Append(stdout, [lines |-> sorted_op_report(h, model_profile),
                                     total |-> total_duration(h, model_profile)])
        /\ calls' = Append(calls, [op |-> "ModelProfile", iteration |-> iteration,
                                   with_warmup |-> TRUE])
        /\ UNCHANGED <<parsed, events, report>>

AnalyzeBase(iteration) ==
    /\ pc = "analyze_base"
    /\ AnalyzeNvtx("base", iteration, None)
    /\ pc' = "analyze_comp"

\* The comparison run is the same workload, with the same iteration count.
AnalyzeComp(compiler_name) ==
    /\ pc = "analyze_comp"
    /\ AnalyzeNvtx("comp", profiles[1].iteration, compiler_name)
    /\ pc' = "compare"

\* print(tabulate_diff(profiles[1], profiles[2], additional_row_lambdas))
TabulateDiff(additional_row_lambdas) ==
    /\ pc = "compare"
    /\ \E order \in Orderings(DiffOpTypes(profiles[1], profiles[2])) :
          stdout' = Append(stdout,
            tabulate_diff(entries, profiles[1], profiles[2], additional_row_lambdas, order))
    /\ calls' = Append(calls, [op |-> "tabulate_diff", base |-> 1, comp |-> 2,
                               extras |-> additional_row_lambdas, out |-> Len(stdout) + 1])
    /\ pc' = "done"
    /\ UNCHANGED <<entries, parsed, profiles, events, report>>

\* compare_node_reports(profiles[1], profiles[2])
CompareNodeReports ==
    /\ pc = "compare"
    /\ LET base_report == profiles[1]
           comp_report == profiles[2]
           filtered_base_report == filter_op_profiles(entries, base_report, matmul_add_op_types)
           h1 == FilterHeap(entries, base_report, matmul_add_op_types)
           filtered_comp_report == filter_op_profiles(h1, comp_report, matmul_add_op_types)
           h2 == FilterHeap(h1, comp_report, matmul_add_op_types)
       IN  /\ \E order1 \in Orderings(DiffOpTypes(base_report, comp_report)),
                 order2 \in Orderings(DiffOpTypes(filtered_base_report, filtered_comp_report)) :
                 stdout' = stdout \o
                    <<tabulate_diff(entries, base_report, comp_report, <<>>, order1),
                      tabulate_diff(h2, filtered_base_report, filtered_comp_report,
                                    <<MatMulLikeRow>>, order2)>>
           /\ entries' = h2
           /\ profiles' = profiles \o <<filtered_base_report, filtered_comp_report>>
           /\ calls' = calls \o
                 <<[op |-> "tabulate_diff", base |-> 1, comp |-> 2, extras |-> <<>>,
                    out |-> Len(stdout) + 1],
                   [op |-> "filter_op_profiles", self |-> 1, op_types |-> matmul_add_op_types],
                   [op |-> "filter_op_profiles", self |-> 2, op_types |-> matmul_add_op_types],
                   [op |-> "tabulate_diff", base |-> Len(profiles) + 1,
                    comp |-> Len(profiles) + 2, extras |-> <<MatMulLikeRow>>,
                    out |-> Len(stdout) + 2]>>
    /\ pc' = "done"
    /\ UNCHANGED <<parsed, events, report>>

NextDiff ==
    \/ \E iteration \in 1..MaxIter : AnalyzeBase(iteration)
    \/ \E compiler_name \in CompilerNames : AnalyzeComp(compiler_name)
    \/ \E extras \in ExtraLists : TabulateDiff(extras)
    \/ CompareNodeReports

SpecDiff == InitDiff /\ [][NextDiff]_vars

----------------------------------------------------------------------------
(* analyze_profile: the "ortcpu" path. An event is a JSON object; a missing  *)
(* or zero "dur" is dur = 0, a category other than "Node" is "Session".      *)

NodeOpTypes == {"MatMul", "Add"}
NodeEvents == [cat : {"Node", "Session"}, dur : {0} \cup Durs, op_name : NodeOpTypes]

InitNode ==
    /\ \E n \in 0..MaxEvents : \E e \in [1..n -> NodeEvents] :
          events = [i \in 1..n |->
                      [cat |-> e[i].cat, dur |-> e[i].dur, name |-> i,
                       args |-> [op_name |-> e[i].op_name]]]
    /\ report = [next |-> 1, items |-> <<>>]
    /\ entries = <<>>
    /\ parsed = <<>>
    /\ profiles = <<>>
    /\ stdout = <<>>
    /\ calls = <<>>
    /\ pc = "node_for"

\* report.setdefault(op_type, ProfileEntry(op_type, [])); report[op_type].entries.append(sample)
SetDefaultAppend(items, op_type, sample) ==
    IF \E i \in 1..Len(items) : items[i].op_type = op_type
    THEN [i \in 1..Len(items) |->
            IF items[i].op_type = op_type
            THEN [items[i] EXCEPT !.entries = Append(@, sample)]
            ELSE items[i]]
    ELSE Append(items, [op_type |-> op_type, entries |-> <<sample>>])

\* One pass of the loop "for entry in profile_json"
NodeForEntry ==
    /\ pc = "node_for"
    /\ report.next <= Len(events)
    /\ LET entry == events[report.next]
       IN  report' =
              [next |-> report.next + 1,
               items |-> IF entry.cat # "Node" \/ entry.dur = 0
                         THEN report.items
                         ELSE SetDefaultAppend(report.items, entry.args.op_name,
                                               <<entry.name, entry.dur>>)]
    /\ UNCHANGED <<entries, parsed, profiles, stdout, calls, events, pc>>

\* sorted(report.values(), key=lambda x: x.total_duration, reverse=True): the
\* keys are bound methods, which Python cannot order; sorted compares keys as
\* soon as there are two items, and raises TypeError.
SortRaises(items) == Len(items) >= 2

\* The sort and the prints that follow the loop
NodePrint ==
    /\ pc = "node_for"
    /\ report.next > Len(events)
    /\ IF SortRaises(report.items)
       THEN /\ pc' = "TypeError"
            /\ UNCHANGED stdout
       ELSE /\ pc' = "node_done"
            /\ stdout' =
                 [lines |-> [i \in 1..Len(report.items) |->
                        [op_type |-> report.items[i].op_type,
                         instances |-> ProfileEntry_total_count(report.items[i].entries, 1),
                         duration |-> ProfileEntry_total_duration(report.items[i].entries, 1)]],
                  total |-> RatSum([i \in 1..Len(report.items) |->
                         ProfileEntry_total_duration(report.items[i].entries, 1)])]
    /\ UNCHANGED <<entries, parsed, profiles, calls, events, report>>

NextNode == NodeForEntry \/ NodePrint

SpecNode == InitNode /\ [][NextNode]_vars

----------------------------------------------------------------------------
(* Properties. The definitions below state what is checked; they read the   *)
(* state through the heap and the call log, and compute expected values     *)
(* from the samples directly.                                               *)

BatchLabels == {"Batch-1"}
AllOpTypes == Labels \cup matmul_add_op_types

LastCall == calls[Len(calls)]
LastProfile == profiles[Len(profiles)]

\* The accumulator of operator type t among the op_profiles of p, if any
AccsOf(p, t) == {a \in Range(p.op_profiles) : a.op_type = t}
\* Summed duration (ns) and number of samples of operator type t in p
DurNs(p, t) == IF AccsOf(p, t) = {} THEN 0 ELSE SumDur(entries[CHOOSE a \in AccsOf(p, t) : TRUE])
CountOf(p, t) == IF AccsOf(p, t) = {} THEN 0 ELSE Len(entries[CHOOSE a \in AccsOf(p, t) : TRUE])
\* ns summed over an aggregate's iterations, as ms per iteration
Ms(p, ns) == Rat(ns, p.iteration * 1000000)

\* The tabulate_diff calls, and for one of them its table and its arguments
TableCalls == {i \in 1..Len(calls) : calls[i].op = "tabulate_diff"}
RowsOf(i) == stdout[calls[i].out]
BaseOf(i) == profiles[calls[i].base]
CompOf(i) == profiles[calls[i].comp]
\* The operator types that get a row: the lookup keys of either side, Batch- ones left out
RowTypes(i) ==
    (DOMAIN BaseOf(i).op_profiles_dict \cup DOMAIN CompOf(i).op_profiles_dict) \ BatchLabels
NOps(i) == Cardinality(RowTypes(i))

(* C1: after any sequence of constructions and filter_op_profiles calls over *)
(* the same accumulators, every accumulator holds its original samples, or   *)
(* those samples trimmed exactly once (by some iteration count): it is never *)
(* trimmed a second time.                                                    *)
C1_TrimmedAtMostOnce ==
    \A a \in DOMAIN entries :
        LET L == Len(parsed[a])
        IN  \/ entries[a] = parsed[a]
            \/ \E I \in 1..MaxIter :
                  entries[a] = SubSeq(parsed[a], (L \div (1 + I)) + 1, L)

(* C2: a construction with trimming and iteration count I > 0 leaves every   *)
(* accumulator that had L samples with the last L - floor(L/(1+I)) of them,  *)
(* in their order.                                                           *)
C2_TrimKeepsTail ==
    [][(/\ Len(calls') = Len(calls) + 1
        /\ calls'[Len(calls')].op = "ModelProfile"
        /\ calls'[Len(calls')].with_warmup)
       => \A a \in DOMAIN entries :
             LET L == Len(entries[a])
                 I == calls'[Len(calls')].iteration
                 dropped == L \div (1 + I)
             IN  /\ I > 0
                 /\ Len(entries'[a]) = L - dropped
                 /\ \A k \in 1..(L - dropped) : entries'[a][k] = entries[a][k + dropped]]_vars

\* A trimming construction has just dropped samples of an accumulator and kept others.
C2_Witness ==
    /\ calls # <<>>
    /\ LastCall.op = "ModelProfile"
    /\ LastCall.with_warmup
    /\ Len(calls) = 1
    /\ \E a \in DOMAIN entries : 2 <= Len(entries[a]) /\ Len(entries[a]) < Len(parsed[a])

(* C3: filter_op_profiles(S) on an aggregate with lookup keys K makes a new  *)
(* aggregate with lookup keys S \cap K and the same iteration count, model   *)
(* name and compiler name, and changes neither the existing aggregates nor   *)
(* the samples of the accumulators it retains.                               *)
C3_FilterIsProjection ==
    [][(/\ Len(calls') = Len(calls) + 1
        /\ calls'[Len(calls')].op = "filter_op_profiles")
       => LET c == calls'[Len(calls')]
              src == profiles[c.self]
              new == profiles'[Len(profiles')]
          IN  /\ Len(profiles') = Len(profiles) + 1
              /\ DOMAIN new.op_profiles_dict = c.op_types \cap DOMAIN src.op_profiles_dict
              /\ new.iteration = src.iteration
              /\ new.model_name = src.model_name
              /\ new.compiler_name = src.compiler_name
              /\ \A i \in 1..Len(profiles) : profiles'[i] = profiles[i]
              /\ \A t \in DOMAIN new.op_profiles_dict :
                    /\ new.op_profiles_dict[t] = src.op_profiles_dict[t]
                    /\ entries'[new.op_profiles_dict[t]] = entries[src.op_profiles_dict[t]]]_vars

\* A filter has just been applied to a trimmed aggregate, retaining an
\* accumulator that lost samples to the trimming and dropping another.
C3_Witness ==
    /\ Len(calls) = 2
    /\ LastCall.op = "filter_op_profiles"
    /\ profiles[LastCall.self]._with_warmup
    /\ ~(LastCall.op_types \subseteq DOMAIN profiles[LastCall.self].op_profiles_dict)
    /\ ~(DOMAIN profiles[LastCall.self].op_profiles_dict \subseteq LastCall.op_types)
    /\ \E t \in DOMAIN LastProfile.op_profiles_dict :
          Len(entries[LastProfile.op_profiles_dict[t]]) <
             Len(parsed[LastProfile.op_profiles_dict[t]])

(* C4, as claimed: in every table the per-operator rows are strictly        *)
(* descending by difference: each row's Diff is greater than the next's.    *)
C4_StrictlyDescending ==
    \A i \in TableCalls : \A r \in 1..(NOps(i) - 1) :
        RatLess(RowsOf(i)[r + 1]["Diff"], RowsOf(i)[r]["Diff"])

(* C4, amended: in every table the per-operator rows are descending by       *)
(* difference (comparison duration - base duration), not strictly: each      *)
(* row's Diff is greater than or equal to the next's.                        *)
C4_Descending ==
    \A i \in TableCalls :
        /\ \A r \in 1..NOps(i) :
              /\ RowsOf(i)[r]["OpType"] \in RowTypes(i)
              /\ LET t == RowsOf(i)[r]["OpType"]
                 IN  RowsOf(i)[r]["Diff"] =
                        RatSub(Ms(CompOf(i), DurNs(CompOf(i), t)), Ms(BaseOf(i), DurNs(BaseOf(i), t)))
        /\ \A r \in 1..(NOps(i) - 1) :
              RatLeq(RowsOf(i)[r + 1]["Diff"], RowsOf(i)[r]["Diff"])

\* A table has two per-operator rows of different differences.
C4_Witness ==
    \E i \in TableCalls :
        /\ NOps(i) = 2
        /\ RowsOf(i)[1]["Diff"] # RowsOf(i)[2]["Diff"]

(* C5, as claimed: in every table, whatever extra rows the caller supplies,  *)
(* the "Total" row is the last row.                                          *)
C5_TotalIsLast ==
    \A i \in TableCalls : RowsOf(i)[Len(RowsOf(i))]["OpType"] = "Total"

(* C5, amended: in every table the "Total" row comes right after all the     *)
(* per-operator rows, whatever its own difference, and is followed only by   *)
(* the caller's extra rows in the order given; it is the last row when there *)
(* are no extra rows.                                                        *)
C5_TotalAfterOpRows ==
    \A i \in TableCalls :
        LET rows == RowsOf(i)
            extras == calls[i].extras
        IN  /\ Len(rows) = NOps(i) + 1 + Len(extras)
            /\ \A r \in 1..NOps(i) : rows[r]["OpType"] # "Total"
            /\ rows[NOps(i) + 1]["OpType"] = "Total"
            /\ \A j \in 1..Len(extras) : rows[NOps(i) + 1 + j]["OpType"] = extras[j].name
            /\ extras = <<>> => rows[Len(rows)]["OpType"] = "Total"

\* A table without extra rows whose Total row has a greater difference than
\* a per-operator row above it.
C5_Witness ==
    \E i \in TableCalls :
        /\ calls[i].extras = <<>>
        /\ NOps(i) >= 1
        /\ RatLess(RowsOf(i)[NOps(i)]["Diff"], RowsOf(i)[NOps(i) + 1]["Diff"])

\* The summed duration (ns) of the accumulators that count towards an aggregate's total
TimedNs(p) == DurNs(p, "MatMul") + DurNs(p, "Add")

\* The base and comparison durations row r of table i stands for: those of
\* its operator type, or the aggregates' totals for "Total" and the extra rows
RowBaseDur(i, r) ==
    IF r <= NOps(i) THEN Ms(BaseOf(i), DurNs(BaseOf(i), RowsOf(i)[r]["OpType"]))
    ELSE Ms(BaseOf(i), TimedNs(BaseOf(i)))
RowCompDur(i, r) ==
    IF r <= NOps(i) THEN Ms(CompOf(i), DurNs(CompOf(i), RowsOf(i)[r]["OpType"]))
    ELSE Ms(CompOf(i), TimedNs(CompOf(i)))

(* C6: in every row (per-operator, Total, extra) the Diff% field is "N/A"    *)
(* exactly when the base duration or the comparison duration the row stands  *)
(* for is 0; otherwise it is (comparison - base) / base * 100 to the nearest *)
(* hundredth (so base is not 0 where it divides).                            *)
C6_DiffPercent ==
    \A i \in TableCalls : \A r \in 1..Len(RowsOf(i)) :
        LET b == RowBaseDur(i, r)
            c == RowCompDur(i, r)
            pct == RowsOf(i)[r]["Diff%"]
        IN  /\ (pct = NA) <=> (b = Zero \/ c = Zero)
            /\ pct # NA =>
                  /\ b.num # 0
                  /\ LET exact == RatMul(RatDiv(RatSub(c, b), b), Rat(10000, 1))
                         err == RatSub(Rat(pct.hundredths, 1), exact)
                     IN  2 * Abs(err.num) <= err.den

\* A table holds a row with a percentage that is not a whole number of
\* hundredths before rounding, and an "N/A" row whose comparison duration is 0.
C6_Witness ==
    \E i \in TableCalls :
        /\ \E r \in 1..Len(RowsOf(i)) :
              /\ RowsOf(i)[r]["Diff%"] # NA
              /\ RatMul(RatDiv(RowCompDur(i, r), RowBaseDur(i, r)), Rat(10000, 1)).den # 1
        /\ \E r \in 1..Len(RowsOf(i)) :
              /\ RowsOf(i)[r]["Diff%"] = NA
              /\ RowBaseDur(i, r) # Zero
              /\ RowCompDur(i, r) = Zero

(* C7: total_duration() is the per-iteration duration summed over exactly    *)
(* the accumulators whose label does not begin with "Batch-";                *)
(* total_op_count() is the per-iteration sample count summed over all        *)
(* accumulators, the "Batch-" ones included.                                 *)
C7_Totals ==
    \A i \in 1..Len(profiles) :
        LET p == profiles[i]
        IN  /\ total_duration(entries, p) = Ms(p, DurNs(p, "MatMul") + DurNs(p, "Add"))
            /\ total_op_count(entries, p) =
                  Rat(CountOf(p, "MatMul") + CountOf(p, "Add") + CountOf(p, "Batch-1"),
                      p.iteration)

\* An aggregate holds a "Batch-" accumulator and another one, both with samples.
C7_Witness ==
    \E i \in 1..Len(profiles) :
        /\ DurNs(profiles[i], "Batch-1") > 0
        /\ DurNs(profiles[i], "Add") > 0

\* The operator types of a trace with a "Node" event of nonzero duration,
\* and their summed durations (ns)
NodeTypes == {events[i].args.op_name : i \in {j \in 1..Len(events) :
                                              events[j].cat = "Node" /\ events[j].dur # 0}}
RECURSIVE NodeNs(_, _)
NodeNs(t, n) ==
    IF n = 0 THEN 0
    ELSE NodeNs(t, n - 1) +
         (IF events[n].cat = "Node" /\ events[n].args.op_name = t THEN events[n].dur ELSE 0)

(* C8: for every Node-trace, whatever the number of operator types, the      *)
(* "ortcpu" path ends without error, having printed one line per operator    *)
(* type with a "Node" event of nonzero duration, by descending total         *)
(* duration, and a grand total that is the sum of these durations.           *)
C8_NodeReport ==
    pc \in {"node_done", "TypeError"} =>
        /\ pc = "node_done"
        /\ {stdout.lines[i].op_type : i \in 1..Len(stdout.lines)} = NodeTypes
        /\ Len(stdout.lines) = Cardinality(NodeTypes)
        /\ \A i \in 1..Len(stdout.lines) :
              stdout.lines[i].duration =
                 Rat(NodeNs(stdout.lines[i].op_type, Len(events)), 1000000)
        /\ \A i \in 1..(Len(stdout.lines) - 1) :
              RatLeq(stdout.lines[i + 1].duration, stdout.lines[i].duration)
        /\ stdout.total = Rat(NodeNs("MatMul", Len(events)) + NodeNs("Add", Len(events)), 1000000)

\* The side of table i that lacks operator type t, when exactly one does
AbsentSide(i, t) ==
    IF t \in DOMAIN BaseOf(i).op_profiles_dict THEN CompOf(i) ELSE BaseOf(i)

(* C9: for every operator type not beginning with "Batch-" that is in the    *)
(* lookup of exactly one of the two aggregates, the table holds exactly one  *)
(* row of that type, and in it the absent side's count is 0, its duration is *)
(* 0 and Diff% is "N/A"; op_duration and op_count are 0 for every label      *)
(* absent from the lookup.                                                   *)
C9_AbsentIsZero ==
    /\ \A i \in TableCalls :
          \A t \in RowTypes(i) \ (DOMAIN BaseOf(i).op_profiles_dict
                                    \cap DOMAIN CompOf(i).op_profiles_dict) :
             LET R == {r \in 1..Len(RowsOf(i)) : RowsOf(i)[r]["OpType"] = t}
             IN  /\ Cardinality(R) = 1
                 /\ \A r \in R :
                       /\ RowsOf(i)[r][CountHeader(AbsentSide(i, t).compiler_name)] = 0
                       /\ RowsOf(i)[r][PerfHeader(AbsentSide(i, t).compiler_name)] = Zero
                       /\ RowsOf(i)[r]["Diff%"] = NA
    /\ \A i \in 1..Len(profiles) : \A t \in AllOpTypes \ DOMAIN profiles[i].op_profiles_dict :
          /\ op_duration(entries, profiles[i], t) = Zero
          /\ op_count(entries, profiles[i], t) = 0

\* C9 where the two aggregates have different compiler names (the two sides have their own columns)
C9_AbsentIsZero_DistinctNames ==
    (Len(profiles) >= 2 /\ profiles[1].compiler_name = profiles[2].compiler_name)
       \/ C9_AbsentIsZero

\* compare_node_reports has run: two ModelProfile calls, then its four calls
CompareDone == pc = "done" /\ Len(calls) = 6

(* C10: compare_node_reports prints the unrestricted diff, then the diff of  *)
(* the two aggregates filtered to {MatMul, Gemm, FusedMatMul, Add}; in the   *)
(* latter the one extra row "Total MatMul like ops" has, for base and for    *)
(* comparison, the count summed over MatMul, Gemm and FusedMatMul only, and  *)
(* the filtered aggregate's total duration (Add included).                   *)
C10_CompareTables ==
    CompareDone =>
        /\ calls[3] = [op |-> "tabulate_diff", base |-> 1, comp |-> 2, extras |-> <<>>,
                       out |-> 3]
        /\ calls[6].op = "tabulate_diff" /\ calls[6].out = 4
        /\ \A k \in 1..2 :
              LET f == profiles[calls[6][IF k = 1 THEN "base" ELSE "comp"]]
                  R == {r \in 1..Len(RowsOf(6)) :
                           RowsOf(6)[r]["OpType"] = "Total MatMul like ops"}
              IN  /\ DOMAIN f.op_profiles_dict =
                        {"MatMul", "Gemm", "FusedMatMul", "Add"} \cap DOMAIN profiles[k].op_profiles_dict
                  /\ Cardinality(R) = 1
                  /\ \A r \in R :
                        /\ RowsOf(6)[r][CountHeader(f.compiler_name)] =
                              CountOf(f, "MatMul") \div f.iteration
                                 + CountOf(f, "Gemm") \div f.iteration
                                 + CountOf(f, "FusedMatMul") \div f.iteration
                        /\ RowsOf(6)[r][PerfHeader(f.compiler_name)] =
                              Ms(f, DurNs(f, "MatMul") + DurNs(f, "Gemm")
                                    + DurNs(f, "FusedMatMul") + DurNs(f, "Add"))

\* C10 where the two aggregates have different compiler names
C10_CompareTables_DistinctNames ==
    (Len(profiles) >= 2 /\ profiles[1].compiler_name = profiles[2].compiler_name)
       \/ C10_CompareTables

====
